---- MODULE Spec2Model ----
(***************************************************************************)
(* Branch Diff (VS Code extension): the unified-diff classifier            *)
(* GitService.parseUnifiedDiff, the gutter provider's classification       *)
(* cache and decorations (GutterDecorationProvider), syncGutter, and the   *)
(* tree provider's refresh (BranchDiffProvider).                           *)
(*                                                                         *)
(* A diff text is a sequence of tokens.  The token NL is the newline       *)
(* character; every other token stands for the whole content of one        *)
(* non-empty line and records what the parser reads of it: its first       *)
(* character(s) and, for a hunk header, the new-file start number.  The    *)
(* empty text is the empty sequence.                                       *)
(***************************************************************************)
EXTENDS Integers, Sequences, FiniteSets, Bags, TLC

VARIABLES
    diffOutput,   \* parseUnifiedDiff: the argument (the diff text)
    lines,        \* parseUnifiedDiff: diffOutput.split('\n')
    i,            \* parseUnifiedDiff: index of the for loop (0-based)
    newLine,      \* parseUnifiedDiff: cursor in the new file
    changes,      \* parseUnifiedDiff: the records pushed so far
    pc,           \* parseUnifiedDiff: "call", "loop" or "done"
    kept,         \* a caller of parseUnifiedDiff: one earlier call's text and result
    mergeBase,    \* GutterDecorationProvider.mergeBase
    cache,        \* GutterDecorationProvider.cache: relative path -> LineChange[]
    enabled,      \* GutterDecorationProvider.enabled
    togglingProgrammatically,  \* GutterDecorationProvider.togglingProgrammatically
    thenPending,               \* toggle(): a .then callback of a fulfilled update() is yet to run
    gutterIndicators,          \* the setting branchDiff.gutterIndicators
    decorations,  \* per visible editor, the ranges last given to setDecorations
    inflight,     \* updateDecorations calls suspended at await getLineDiff (a bag)
    call,         \* the provider method that ran last, its argument and result
    head,         \* the repository: the commit HEAD points to
    origin,       \* per cache entry, the base and HEAD its git diff was run against
    baseBranch,   \* BranchDiffProvider._baseBranch
    treeMergeBase,  \* BranchDiffProvider.mergeBase
    changedFiles, \* BranchDiffProvider.changedFiles
    rootItems,    \* BranchDiffProvider.rootItems
    isLoading,    \* BranchDiffProvider.isLoading
    statusMessage,  \* BranchDiffProvider.statusMessage
    refreshing    \* the refresh() call that is past the isLoading guard, if any

parseVars == <<diffOutput, lines, i, newLine, changes, pc>>

callerVars == <<kept>>

providerVars ==
    <<mergeBase, cache, enabled, togglingProgrammatically, thenPending, gutterIndicators,
      decorations, inflight, call, head, origin>>

treeVars ==
    <<baseBranch, treeMergeBase, changedFiles, rootItems, isLoading, statusMessage,
      refreshing>>

vars == <<parseVars, callerVars, providerVars, treeVars>>

\* Longest diff text, counted in lines.
MaxLines == 4
\* Largest new-file start a hunk header carries.
MaxStart == 2

(***************************************************************************)
(* Diff texts                                                              *)
(***************************************************************************)
NL == [k |-> "\n", start |-> 0]

\* "@@ -a,b +start,c @@": a line the hunk-header pattern matches.
HunkTok(n) == [k |-> "@@", start |-> n]

\* A line whose first character is c ("-", "+" or " "), or a line with none of
\* these prefixes that is no hunk header ("\\": "\ No newline at end of file").
PrefixTok(c) == [k |-> c, start |-> 0]

LineToks ==
    {HunkTok(n) : n \in 0..MaxStart} \cup {PrefixTok(c) : c \in {"-", "+", " ", "\\"}}

\* The content of one line: empty, or one token.
LineContents == {<<>>} \cup {<<t>> : t \in LineToks}

LineChangeTypes == {"added", "modified", "deleted"}

LineChange(t, s, e) == [type |-> t, startLine |-> s, endLine |-> e]

RECURSIVE Join(_)
\* The text whose lines are ls: the lines with one NL between neighbours.
Join(ls) ==
    IF Len(ls) = 0 THEN <<>>
    ELSE IF Len(ls) = 1 THEN ls[1]
    ELSE ls[1] \o <<NL>> \o Join(Tail(ls))

DiffTexts ==
    {Join(ls) : ls \in UNION {[1..n -> LineContents] : n \in 1..MaxLines}}

RECURSIVE Split(_)
\* String.prototype.split('\n'): the pieces between the newlines; the empty
\* text gives one empty piece.
Split(text) ==
    IF \A j \in 1..Len(text) : text[j] # NL THEN <<text>>
    ELSE LET j == CHOOSE x \in 1..Len(text) :
                      text[x] = NL /\ \A y \in 1..(x - 1) : text[y] # NL
         IN  <<SubSeq(text, 1, j - 1)>> \o Split(SubSeq(text, j + 1, Len(text)))

\* line.match(/^@@ -\d+(?:,\d+)? \+(\d+)(?:,\d+)? @@/)
hunkMatch(line) == Len(line) > 0 /\ line[1].k = "@@"

\* parseInt(hunkMatch[1], 10)
hunkStart(line) == line[1].start

\* line.startsWith(c)
startsWith(line, c) == Len(line) > 0 /\ line[1].k = c

(***************************************************************************)
(* parseUnifiedDiff: one iteration of the for loop.  A loop state is       *)
(* [i, newLine, changes]; ls[st.i + 1] is the code's lines[i].             *)
(***************************************************************************)
RECURSIVE SkipWhile(_, _, _)
\* while (i < lines.length && lines[i].startsWith(c)) i++
SkipWhile(ls, j, c) ==
    IF j < Len(ls) /\ startsWith(ls[j + 1], c) THEN SkipWhile(ls, j + 1, c) ELSE j

Min(a, b) == IF a < b THEN a ELSE b

Max(a, b) == IF a > b THEN a ELSE b

\* Mutant of Overlap: the larger count.
OverlapMax(removeCount, addCount) == Max(removeCount, addCount)

\* Math.min(removeCount, addCount)
Overlap(removeCount, addCount) == Min(removeCount, addCount)

\* The record of the overlap region of a removed run and the added run after it.
ModifiedRecord(n, overlap) == LineChange("modified", n, n + overlap - 1)

\* Mutant of SurplusAdded: the surplus starts at the cursor.
SurplusAddedAtCursor(n, overlap, addCount) == LineChange("added", n, n + addCount - 1)

\* The record of the added lines beyond the overlap.
SurplusAdded(n, overlap, addCount) == LineChange("added", n + overlap, n + addCount - 1)

\* Mutant of SurplusDeleted: the marker spans from the cursor to the first
\* surplus line.
SurplusDeletedSpans(n, overlap) == LineChange("deleted", n, n + overlap)

\* Mutant of SurplusDeleted: the marker stands at the cursor.
SurplusDeletedAtCursor(n, overlap) == LineChange("deleted", n, n)

\* The marker of the removed lines beyond the overlap.
SurplusDeleted(n, overlap) == LineChange("deleted", n + overlap, n + overlap)

\* Mutant of PureDeleted: the marker stands on the line before the cursor.
PureDeletedBefore(n) == LineChange("deleted", n - 1, n - 1)

\* The marker of a removed run that no added run follows.
PureDeleted(n) == LineChange("deleted", n, n)

\* Mutant of StandaloneAdded: the record starts one line after the cursor.
StandaloneAddedFromNext(n, addCount) == LineChange("added", n + 1, n + addCount)

\* Mutant of StandaloneAdded: the range ends one line late.
StandaloneAddedLong(n, addCount) == LineChange("added", n, n + addCount)

\* The record of an added run that follows no removed run.
StandaloneAdded(n, addCount) == LineChange("added", n, n + addCount - 1)

\* Mutant of PairRecords: the surplus record is pushed before the Modified one.
PairRecordsSurplusFirst(n, removeCount, addCount) ==
    LET overlap == Min(removeCount, addCount)
    IN  (IF addCount > overlap THEN <<LineChange("added", n + overlap, n + addCount - 1)>>
         ELSE IF removeCount > overlap THEN <<LineChange("deleted", n + overlap, n + overlap)>>
         ELSE <<>>) \o
        <<LineChange("modified", n, n + overlap - 1)>>

\* The records pushed when both counts are positive.
PairRecords(n, removeCount, addCount) ==
    LET overlap == Overlap(removeCount, addCount)
    IN  <<ModifiedRecord(n, overlap)>> \o
        (IF addCount > overlap THEN <<SurplusAdded(n, overlap, addCount)>>
         ELSE IF removeCount > overlap THEN <<SurplusDeleted(n, overlap)>>
         ELSE <<>>)

\* if (line.startsWith('-')) { ... }: the removed run at lines[i], the added run
\* that directly follows it, the records pushed for them and the cursor's
\* advance.  The for loop's i++ is included.
RemovedStep(ls, st) ==
    LET removeStart == st.i
        afterRemoved == SkipWhile(ls, st.i, "-")
        removeCount == afterRemoved - removeStart
        addStart == afterRemoved
        afterAdded == SkipWhile(ls, afterRemoved, "+")
        addCount == afterAdded - addStart
        n == st.newLine
    IN  IF removeCount > 0 /\ addCount > 0
        THEN [i |-> (afterAdded - 1) + 1,
              newLine |-> n + addCount,
              changes |-> st.changes \o PairRecords(n, removeCount, addCount)]
        ELSE IF addCount > 0
        THEN [i |-> (afterAdded - 1) + 1,
              newLine |-> n + addCount,
              changes |-> Append(st.changes, LineChange("added", n, n + addCount - 1))]
        ELSE [i |-> (afterAdded - 1) + 1,
              newLine |-> n,
              changes |-> Append(st.changes, PureDeleted(n))]

\* else if (line.startsWith('+')) { ... }
AddedStep(ls, st) ==
    LET addStart == st.i
        afterAdded == SkipWhile(ls, st.i, "+")
        addCount == afterAdded - addStart
    IN  [i |-> (afterAdded - 1) + 1,
         newLine |-> st.newLine + addCount,
         changes |-> Append(st.changes, StandaloneAdded(st.newLine, addCount))]

\* Mutant of ContextStep: the cursor moves back by one line.
ContextStepBack(ls, st) == [st EXCEPT !.i = st.i + 1, !.newLine = st.newLine - 1]

\* Mutant of ContextStep: the cursor stays.
ContextStepNoAdvance(ls, st) == [st EXCEPT !.i = st.i + 1]

\* else if (line.startsWith(' ')) { newLine++; }
ContextStep(ls, st) == [st EXCEPT !.i = st.i + 1, !.newLine = st.newLine + 1]

\* Mutant of HunkStep: only the first hunk header sets the cursor.
HunkStepFirstOnly(ls, st) ==
    [st EXCEPT !.i = st.i + 1,
               !.newLine = IF st.newLine = 0 THEN hunkStart(ls[st.i + 1]) ELSE st.newLine]

\* if (hunkMatch) { newLine = parseInt(hunkMatch[1], 10); continue; }
HunkStep(ls, st) == [st EXCEPT !.i = st.i + 1, !.newLine = hunkStart(ls[st.i + 1])]

\* continue (a skipped line), or a line no branch takes
NoStep(ls, st) == [st EXCEPT !.i = st.i + 1]

\* Mutant of SkipTest: no line is skipped.
SkipTestNever(cursor) == FALSE

\* if (newLine === 0) { continue; }
SkipTest(cursor) == cursor = 0

\* The branch the loop body takes for lines[i].
Branch(ls, st) ==
    LET line == ls[st.i + 1]
    IN  IF hunkMatch(line) THEN "hunk"
        ELSE IF SkipTest(st.newLine) THEN "skip"
        ELSE IF startsWith(line, "-") THEN "removed"
        ELSE IF startsWith(line, "+") THEN "added"
        ELSE IF startsWith(line, " ") THEN "context"
        ELSE "ignored"

\* One iteration of the for loop.
Step(ls, st) ==
    LET b == Branch(ls, st)
    IN  IF b = "hunk" THEN HunkStep(ls, st)
        ELSE IF b = "removed" THEN RemovedStep(ls, st)
        ELSE IF b = "added" THEN AddedStep(ls, st)
        ELSE IF b = "context" THEN ContextStep(ls, st)
        ELSE NoStep(ls, st)

\* let newLine = 0; const changes = []; i = 0
EntryState == [i |-> 0, newLine |-> 0, changes |-> <<>>]

RECURSIVE RunLoop(_, _)
\* for (let i = 0; i < lines.length; i++) { ... }
RunLoop(ls, st) == IF st.i < Len(ls) THEN RunLoop(ls, Step(ls, st)) ELSE st

\* The whole function, as its callers see it.
parseUnifiedDiff(text) == RunLoop(Split(text), EntryState).changes

(***************************************************************************)
(* parseUnifiedDiff as a process: one action per loop iteration            *)
(***************************************************************************)
loopState == [i |-> i, newLine |-> newLine, changes |-> changes]

AtBranch(b) == pc = "loop" /\ i < Len(lines) /\ Branch(lines, loopState) = b

TakeStep ==
    LET next == Step(lines, loopState)
    IN  /\ i' = next.i
        /\ newLine' = next.newLine
        /\ changes' = next.changes
        /\ UNCHANGED <<diffOutput, lines, pc, callerVars, providerVars, treeVars>>

\* Mutant of ParseBegin: the cursor is kept from the call before.
ParseBeginKeepsCursor ==
    /\ pc = "call"
    /\ lines' = Split(diffOutput)
    /\ i' = 0
    /\ newLine' = newLine
    /\ changes' = <<>>
    /\ pc' = "loop"
    /\ UNCHANGED <<diffOutput, callerVars, providerVars, treeVars>>

ParseBegin ==
    /\ pc = "call"
    /\ lines' = Split(diffOutput)
    /\ i' = EntryState.i
    /\ newLine' = EntryState.newLine
    /\ changes' = EntryState.changes
    /\ pc' = "loop"
    /\ UNCHANGED <<diffOutput, callerVars, providerVars, treeVars>>

HunkHeader == AtBranch("hunk") /\ TakeStep

SkipBeforeHunk == AtBranch("skip") /\ TakeStep

RemovedRun == AtBranch("removed") /\ TakeStep

AddedRun == AtBranch("added") /\ TakeStep

ContextLine == AtBranch("context") /\ TakeStep

IgnoredLine == AtBranch("ignored") /\ TakeStep

ParseReturn ==
    /\ pc = "loop"
    /\ i >= Len(lines)
    /\ pc' = "done"
    /\ UNCHANGED <<diffOutput, lines, i, newLine, changes, callerVars, providerVars, treeVars>>

(***************************************************************************)
(* GutterDecorationProvider: the classification cache and the decorations  *)
(***************************************************************************)
\* Most updateDecorations calls suspended at one time.
MaxInflight == 3

\* Merge-base identifiers (commit hashes).
Bases == {"b1", "b2"}

\* The visible editors (vscode.window.visibleTextEditors) and their documents:
\* uri scheme, path relative to the repository ("" when outside it), lineCount.
Editors == {"e1", "e2", "e3", "e4"}

Doc(e) ==
    IF e = "e1" THEN [scheme |-> "file", relativePath |-> "a.ts", lineCount |-> 3]
    ELSE IF e = "e2" THEN [scheme |-> "file", relativePath |-> "b.ts", lineCount |-> 1]
    ELSE IF e = "e3" THEN [scheme |-> "file", relativePath |-> "", lineCount |-> 2]
    ELSE [scheme |-> "git-base", relativePath |-> "a.ts", lineCount |-> 2]

\* The order in which a loop over visibleTextEditors meets the editors.
EditorOrder == <<"e1", "e2", "e3", "e4">>

\* The commits HEAD may point to.
Heads == {"h1", "h2"}

\* The files of the repository that are open in an editor.
Paths == {"a.ts", "b.ts"}

\* What `git diff <mergeBase>..HEAD -- <file>` prints, HEAD being at h.
GitDiff(b, h, path) ==
    IF path = "a.ts"
    THEN IF b = "b1" /\ h = "h1"
         THEN Join(<<<<HunkTok(1)>>, <<PrefixTok("+")>>>>)
         ELSE IF b = "b1"
         THEN Join(<<<<HunkTok(2)>>, <<PrefixTok("-")>>, <<PrefixTok("+")>>,
                     <<PrefixTok("+")>>>>)
         ELSE IF h = "h1" THEN <<>>
         ELSE Join(<<<<HunkTok(1)>>, <<PrefixTok("-")>>>>)
    ELSE IF b = "b1"
         THEN Join(<<<<HunkTok(3)>>, <<PrefixTok("+")>>, <<PrefixTok("+")>>>>)
         ELSE Join(<<<<HunkTok(1)>>, <<PrefixTok("-")>>, <<PrefixTok("+")>>>>)

GitDiffs == {GitDiff(b, h, path) : b \in Bases, h \in Heads, path \in Paths}

\* Mutant of getLineDiff: a failed command yields what a successful one would.
getLineDiffFailureIgnored(b, h, path, ok) == parseUnifiedDiff(GitDiff(b, h, path))

\* getLineDiff(mergeBase, filePath), HEAD being at h: the classification of
\* what git prints, or [] when there is no repository or the command fails
\* (ok = FALSE).
getLineDiff(b, h, path, ok) ==
    IF ok THEN parseUnifiedDiff(GitDiff(b, h, path)) ELSE <<>>

LineDiffResults ==
    {getLineDiff(b, h, path, ok) :
        b \in Bases, h \in Heads, path \in Paths, ok \in BOOLEAN}

NoDecorations == [added |-> <<>>, modified |-> <<>>, deleted |-> <<>>]

\* new Map(), and the map after cache.clear()
EmptyCache == [p \in {} |-> <<>>]

\* Mutant of CacheSet: the map is replaced by one that holds the new entry
\* alone.
CacheSetAlone(c, path, value) == [p \in {path} |-> value]

\* cache.set(path, value)
CacheSet(c, path, value) ==
    [q \in (DOMAIN c) \cup {path} |-> IF q = path THEN value ELSE c[q]]

RECURSIVE RangesOfUnclamped(_, _, _)
\* Mutant of RangesOf: the end of a range is not clamped to the document.
RangesOfUnclamped(lineChanges, type, lineCount) ==
    IF Len(lineChanges) = 0 THEN <<>>
    ELSE LET change == Head(lineChanges)
             startLine == Max(0, change.startLine - 1)
             endLine == Max(0, change.endLine - 1)
             rest == RangesOfUnclamped(Tail(lineChanges), type, lineCount)
         IN  IF startLine >= lineCount \/ change.type # type THEN rest
             ELSE <<<<startLine, endLine>>>> \o rest

RECURSIVE RangesOf(_, _, _)
\* The ranges of the records of one type among lineChanges, in order, each
\* converted to 0-based lines and clamped to the document; records that start
\* beyond the document are left out.
RangesOf(lineChanges, type, lineCount) ==
    IF Len(lineChanges) = 0 THEN <<>>
    ELSE LET change == Head(lineChanges)
             startLine == Max(0, change.startLine - 1)
             endLine == Max(0, change.endLine - 1)
             clampedEnd == Min(endLine, lineCount - 1)
             rest == RangesOf(Tail(lineChanges), type, lineCount)
         IN  IF startLine >= lineCount \/ change.type # type THEN rest
             ELSE <<<<startLine, clampedEnd>>>> \o rest

\* The three setDecorations calls that end updateDecorations.
DecorationsFor(lineChanges, lineCount) ==
    [added |-> RangesOf(lineChanges, "added", lineCount),
     modified |-> RangesOf(lineChanges, "modified", lineCount),
     deleted |-> RangesOf(lineChanges, "deleted", lineCount)]

\* Mutant of UpdateSync: the cache is not looked up; every call for a file of
\* the repository starts a retrieval.
UpdateSyncNoLookup(s, e) ==
    IF ~s.enabled \/ s.mergeBase = ""
    THEN [s EXCEPT !.decorations[e] = NoDecorations]
    ELSE IF Doc(e).scheme # "file" THEN s
    ELSE IF Doc(e).relativePath = "" THEN s
    ELSE [s EXCEPT !.inflight =
              s.inflight (+)
              SetToBag({[editor |-> e, mergeBase |-> s.mergeBase, head |-> head,
                         relativePath |-> Doc(e).relativePath]})]

\* Mutant of UpdateSync: an entry that is the empty sequence counts as absent.
UpdateSyncEmptyIsMiss(s, e) ==
    IF ~s.enabled \/ s.mergeBase = ""
    THEN [s EXCEPT !.decorations[e] = NoDecorations]
    ELSE IF Doc(e).scheme # "file" THEN s
    ELSE IF Doc(e).relativePath = "" THEN s
    ELSE IF /\ Doc(e).relativePath \in DOMAIN s.cache
            /\ s.cache[Doc(e).relativePath] # <<>>
    THEN [s EXCEPT !.decorations[e] =
              DecorationsFor(s.cache[Doc(e).relativePath], Doc(e).lineCount)]
    ELSE [s EXCEPT !.inflight =
              s.inflight (+)
              SetToBag({[editor |-> e, mergeBase |-> s.mergeBase, head |-> head,
                         relativePath |-> Doc(e).relativePath]})]

\* Mutant of UpdateSync: the held base is not tested.
UpdateSyncIgnoresBase(s, e) ==
    IF ~s.enabled
    THEN [s EXCEPT !.decorations[e] = NoDecorations]
    ELSE IF Doc(e).scheme # "file" THEN s
    ELSE IF Doc(e).relativePath = "" THEN s
    ELSE IF Doc(e).relativePath \in DOMAIN s.cache
    THEN [s EXCEPT !.decorations[e] =
              DecorationsFor(s.cache[Doc(e).relativePath], Doc(e).lineCount)]
    ELSE [s EXCEPT !.inflight =
              s.inflight (+)
              SetToBag({[editor |-> e, mergeBase |-> s.mergeBase, head |-> head,
                         relativePath |-> Doc(e).relativePath]})]

\* updateDecorations(editor) up to its return or its await, on the provider
\* state s = [enabled, mergeBase, cache, decorations, inflight, origin].
UpdateSync(s, e) ==
    IF ~s.enabled \/ s.mergeBase = ""
    THEN [s EXCEPT !.decorations[e] = NoDecorations]
    ELSE IF Doc(e).scheme # "file" THEN s
    ELSE IF Doc(e).relativePath = "" THEN s
    ELSE IF Doc(e).relativePath \in DOMAIN s.cache
    THEN [s EXCEPT !.decorations[e] =
              DecorationsFor(s.cache[Doc(e).relativePath], Doc(e).lineCount)]
    ELSE [s EXCEPT !.inflight =
              s.inflight (+)
              SetToBag({[editor |-> e, mergeBase |-> s.mergeBase, head |-> head,
                         relativePath |-> Doc(e).relativePath]})]

RECURSIVE UpdateAll(_, _)
\* for (const editor of vscode.window.visibleTextEditors) updateDecorations(editor)
UpdateAll(s, editors) ==
    IF Len(editors) = 0 THEN s
    ELSE UpdateAll(UpdateSync(s, Head(editors)), Tail(editors))

\* Mutant of RefreshAllOn: the cache is kept.
RefreshAllKeepsCache(s) == UpdateAll(s, EditorOrder)

\* refreshAll(), on the provider state s
RefreshAllOn(s) == UpdateAll([s EXCEPT !.cache = EmptyCache], EditorOrder)

RECURSIVE ClearAll(_, _)
\* clearAllDecorations(), on the provider state s
ClearAll(s, editors) ==
    IF Len(editors) = 0 THEN s
    ELSE ClearAll([s EXCEPT !.decorations[Head(editors)] = NoDecorations], Tail(editors))

providerState ==
    [enabled |-> enabled, mergeBase |-> mergeBase, cache |-> cache,
     decorations |-> decorations, inflight |-> inflight, origin |-> origin]

\* The provider state becomes s, if that keeps the suspended calls within the
\* bound.
Become(s) ==
    /\ BagCardinality(s.inflight) <= MaxInflight
    /\ enabled' = s.enabled
    /\ mergeBase' = s.mergeBase
    /\ cache' = s.cache
    /\ decorations' = s.decorations
    /\ inflight' = s.inflight
    /\ origin' = [p \in DOMAIN s.cache |-> s.origin[p]]

Called(op, arg, ret) == call' = [op |-> op, arg |-> arg, ret |-> ret]

\* Mutant of setMergeBaseOn: the new base is stored and the cache is kept.
setMergeBaseKeepsCache(s, b) ==
    IF s.mergeBase # b
    THEN [state |-> [s EXCEPT !.mergeBase = b], changed |-> TRUE]
    ELSE [state |-> s, changed |-> FALSE]

\* Mutant of setMergeBaseOn: the cache is cleared on every call.
setMergeBaseAlwaysClears(s, b) ==
    [state |-> [s EXCEPT !.mergeBase = b, !.cache = EmptyCache],
     changed |-> s.mergeBase # b]

\* setMergeBase(b) on the provider state s: the state after it and what it
\* returns.
setMergeBaseOn(s, b) ==
    IF s.mergeBase # b
    THEN [state |-> [s EXCEPT !.mergeBase = b, !.cache = EmptyCache], changed |-> TRUE]
    ELSE [state |-> s, changed |-> FALSE]

\* setMergeBase(b)
SetMergeBase(b) ==
    /\ Become(setMergeBaseOn(providerState, b).state)
    /\ Called("setMergeBase", b, setMergeBaseOn(providerState, b).changed)
    /\ UNCHANGED <<togglingProgrammatically, thenPending, gutterIndicators, head, parseVars, callerVars, treeVars>>

\* updateDecorations(e), from a listener of the active or the visible editors.
UpdateDecorations(e) ==
    /\ Become(UpdateSync(providerState, e))
    /\ Called("updateDecorations", e, FALSE)
    /\ UNCHANGED <<togglingProgrammatically, thenPending, gutterIndicators, head, parseVars, callerVars, treeVars>>

\* What a suspended updateDecorations call holds: its editor, the base and the
\* path it passed to getLineDiff, and the commit HEAD named at that time.
SuspendedCalls ==
    [editor : Editors, mergeBase : Bases, head : Heads, relativePath : Paths]

\* The await of a suspended updateDecorations call c ends: getLineDiff
\* returns (ok: git succeeded); the call stores the result and sets the
\* editor's decorations.
LineDiffResolved(c, ok) ==
    /\ BagIn(c, inflight)
    /\ LET result == getLineDiff(c.mergeBase, c.head, c.relativePath, ok)
       IN  /\ Become([providerState EXCEPT
                        !.cache = CacheSet(cache, c.relativePath, result),
                        !.origin = CacheSet(origin, c.relativePath,
                                            [mergeBase |-> c.mergeBase, head |-> c.head]),
                        !.decorations[c.editor] =
                            DecorationsFor(result, Doc(c.editor).lineCount),
                        !.inflight = inflight (-) SetToBag({c})])
           /\ Called("getLineDiff", c.relativePath, ok)
    /\ UNCHANGED <<togglingProgrammatically, thenPending, gutterIndicators, head, parseVars, callerVars, treeVars>>

\* refreshAll()
RefreshAll ==
    /\ Become(RefreshAllOn(providerState))
    /\ Called("refreshAll", "", FALSE)
    /\ UNCHANGED <<togglingProgrammatically, thenPending, gutterIndicators, head, parseVars, callerVars, treeVars>>

\* decorateVisible()
DecorateVisible ==
    /\ Become(UpdateAll(providerState, EditorOrder))
    /\ Called("decorateVisible", "", FALSE)
    /\ UNCHANGED <<togglingProgrammatically, thenPending, gutterIndicators, head, parseVars, callerVars, treeVars>>

\* if (this.enabled) { this.refreshAll(); } else { this.clearAllDecorations(); }
RefreshOrClear(s) == IF s.enabled THEN RefreshAllOn(s) ELSE ClearAll(s, EditorOrder)

\* toggle(): the flag flips, the write of the setting starts, and the editors
\* are refreshed or cleared.  ok: the write will be fulfilled; the setting then
\* takes the new value, and the configuration event of this write meets
\* togglingProgrammatically = true.  A write that will be rejected leaves the
\* setting as it is.
Toggle(ok) ==
    /\ togglingProgrammatically' = TRUE
    /\ thenPending' = (thenPending \/ ok)
    /\ gutterIndicators' = IF ok THEN ~enabled ELSE gutterIndicators
    /\ Become(RefreshOrClear([providerState EXCEPT !.enabled = ~enabled]))
    /\ Called("toggle", "", ok)
    /\ UNCHANGED <<head, parseVars, callerVars, treeVars>>

\* .then(() => { this.togglingProgrammatically = false; }), run when a write
\* is fulfilled; there is no callback for a rejected write.
ToggleWritten ==
    /\ thenPending
    /\ togglingProgrammatically' = FALSE
    /\ thenPending' = FALSE
    /\ Become(providerState)
    /\ Called("toggle.then", "", FALSE)
    /\ UNCHANGED <<gutterIndicators, head, parseVars, callerVars, treeVars>>

\* The listener of onDidChangeConfiguration, for a change of
\* branchDiff.gutterIndicators to v made in the settings.
ConfigurationChanged(v) ==
    /\ gutterIndicators' = v
    /\ IF ~togglingProgrammatically
       THEN Become(RefreshOrClear([providerState EXCEPT !.enabled = v]))
       ELSE Become(providerState)
    /\ Called("onDidChangeConfiguration", "", FALSE)
    /\ UNCHANGED <<togglingProgrammatically, thenPending, head, parseVars, callerVars, treeVars>>

\* Mutant of syncGutter: the visible editors are refreshed on every call.
syncGutterAlwaysRefreshes(s, b) == RefreshAllOn(setMergeBaseOn(s, b).state)

\* syncGutter(), the tree provider holding the merge base b, on the provider
\* state s.
syncGutterOn(s, b) ==
    IF setMergeBaseOn(s, b).changed
    THEN RefreshAllOn(setMergeBaseOn(s, b).state)
    ELSE UpdateAll(setMergeBaseOn(s, b).state, EditorOrder)

\* syncGutter(), run when a refresh of the tree provider has ended (the refresh
\* command, the change of the base branch, the auto-refresh, the activation);
\* b is the merge base the tree provider holds, which is never '' again once
\* a merge base was found.
SyncGutter(b) ==
    /\ b = "" => mergeBase = ""
    /\ Become(syncGutterOn(providerState, b))
    /\ Called("syncGutter", b, setMergeBaseOn(providerState, b).changed)
    /\ UNCHANGED <<togglingProgrammatically, thenPending, gutterIndicators, head, parseVars, callerVars, treeVars>>

\* The repository changes state: HEAD moves to the commit h.
GitStateChanged(h) ==
    /\ h # head
    /\ head' = h
    /\ Become(providerState)
    /\ Called("onDidChangeState", h, FALSE)
    /\ UNCHANGED <<togglingProgrammatically, thenPending, gutterIndicators, parseVars, callerVars, treeVars>>

(***************************************************************************)
(* BranchDiffProvider: the base branch, the merge base and the changed     *)
(* files                                                                   *)
(***************************************************************************)
\* The branches the user can select as base.
Branches == {"main", "dev"}

\* What `git merge-base HEAD <branch>` prints.
MergeBaseOf(branch) == IF branch = "main" THEN "b1" ELSE "b2"

\* What `git diff --name-status <mergeBase>..HEAD` lists (files of the
\* repository's root).
ChangedFilesOf(b) == IF b = "b1" THEN <<"a.ts", "b.ts">> ELSE <<"b.ts">>

\* gitService.getMergeBase(branch): undefined ("") when the command fails.
getMergeBase(branch, ok) == IF ok THEN MergeBaseOf(branch) ELSE ""

\* gitService.getChangedFiles(mergeBase): [] when the command fails.
getChangedFiles(b, ok) == IF ok THEN ChangedFilesOf(b) ELSE <<>>

\* The labels of the files, in the order localeCompare gives them.
LabelOrder == <<"a.ts", "b.ts">>

\* buildTree() for files of the root: one FileItem per changed file, carrying
\* the merge base and the base branch held when it is built, sorted by label.
buildTree(files, b, branch) ==
    LET listed == {files[j] : j \in 1..Len(files)}
        IsListed(f) == f \in listed
        labels == SelectSeq(LabelOrder, IsListed)
    IN  [j \in 1..Len(labels) |->
            [file |-> labels[j], mergeBase |-> b, baseBranch |-> branch]]

Undefined == [text |-> "undefined", branch |-> ""]

CannotFindMergeBase(branch) == [text |-> "Cannot find merge-base with", branch |-> branch]

NoChangesFrom(branch) == [text |-> "No changes from", branch |-> branch]

\* No refresh() call is past the isLoading guard.
Idle == [pc |-> "idle", branch |-> "", mergeBase |-> "", op |-> "", arg |-> ""]

\* Mutant of EnterRefresh: the isLoading guard is left out.
EnterRefreshUnguarded(op, arg, branch) ==
    /\ isLoading' = TRUE
    /\ statusMessage' = Undefined
    /\ refreshing' = [pc |-> "getMergeBase", branch |-> branch,
                      mergeBase |-> "", op |-> op, arg |-> arg]
    /\ Called(op \o ".call", arg, TRUE)
    /\ UNCHANGED <<treeMergeBase, changedFiles, rootItems>>

\* refresh(), called by op(arg) while _baseBranch is branch, up to its return
\* at the isLoading guard or its await of getMergeBase(_baseBranch).
EnterRefresh(op, arg, branch) ==
    IF isLoading
    THEN /\ Called(op \o ".return", arg, FALSE)
         /\ UNCHANGED <<treeMergeBase, changedFiles, rootItems, isLoading,
                        statusMessage, refreshing>>
    ELSE /\ isLoading' = TRUE
         /\ statusMessage' = Undefined
         /\ refreshing' = [pc |-> "getMergeBase", branch |-> branch,
                           mergeBase |-> "", op |-> op, arg |-> arg]
         /\ Called(op \o ".call", arg, TRUE)
         /\ UNCHANGED <<treeMergeBase, changedFiles, rootItems>>

\* The provider's variables other than call.
gutterVars ==
    <<mergeBase, cache, enabled, togglingProgrammatically, thenPending, gutterIndicators,
      decorations, inflight, head, origin>>

\* setBaseBranch(branch), up to the return or the await of its refresh() call.
SetBaseBranch(branch) ==
    /\ baseBranch' = branch
    /\ EnterRefresh("setBaseBranch", branch, branch)
    /\ UNCHANGED <<gutterVars, parseVars, callerVars>>

\* refresh(), from the refresh command, the auto-refresh or the activation.
Refresh ==
    /\ EnterRefresh("refresh", "", baseBranch)
    /\ UNCHANGED <<baseBranch, gutterVars, parseVars, callerVars>>

\* The await of getMergeBase ends.  Without a merge base the refresh ends with
\* a message and no files, and its caller returns; with one it is stored and
\* getChangedFiles(mergeBase) is awaited.
MergeBaseResolved(ok) ==
    /\ refreshing.pc = "getMergeBase"
    /\ IF getMergeBase(refreshing.branch, ok) = ""
       THEN /\ statusMessage' = CannotFindMergeBase(baseBranch)
            /\ changedFiles' = <<>>
            /\ rootItems' = <<>>
            /\ isLoading' = FALSE
            /\ refreshing' = Idle
            /\ Called(refreshing.op \o ".return", refreshing.arg, TRUE)
            /\ UNCHANGED treeMergeBase
       ELSE /\ treeMergeBase' = getMergeBase(refreshing.branch, ok)
            /\ refreshing' = [refreshing EXCEPT
                                 !.pc = "getChangedFiles",
                                 !.mergeBase = getMergeBase(refreshing.branch, ok)]
            /\ Called("getMergeBase", refreshing.branch, ok)
            /\ UNCHANGED <<changedFiles, rootItems, isLoading, statusMessage>>
    /\ UNCHANGED <<baseBranch, gutterVars, parseVars, callerVars>>

\* The await of getChangedFiles ends: the files are stored, the tree is built,
\* the refresh ends and its caller returns.
ChangedFilesResolved(ok) ==
    /\ refreshing.pc = "getChangedFiles"
    /\ changedFiles' = getChangedFiles(refreshing.mergeBase, ok)
    /\ rootItems' = buildTree(changedFiles', treeMergeBase, baseBranch)
    /\ statusMessage' = IF Len(changedFiles') = 0 THEN NoChangesFrom(baseBranch)
                        ELSE statusMessage
    /\ isLoading' = FALSE
    /\ refreshing' = Idle
    /\ Called(refreshing.op \o ".return", refreshing.arg, TRUE)
    /\ UNCHANGED <<baseBranch, treeMergeBase, gutterVars, parseVars, callerVars>>

\* The tree provider after its constructor.
TreeInit ==
    /\ baseBranch = "main"
    /\ treeMergeBase = ""
    /\ changedFiles = <<>>
    /\ rootItems = <<>>
    /\ isLoading = FALSE
    /\ statusMessage = Undefined
    /\ refreshing = Idle

NotKept == [has |-> FALSE, text |-> <<>>, result |-> <<>>, between |-> FALSE]

ParseInit ==
    /\ lines = <<>>
    /\ i = 0
    /\ newLine = 0
    /\ changes = <<>>
    /\ pc = "call"
    /\ kept = NotKept

\* The provider after its constructor and registerListeners(): the setting
\* has its default.
ProviderInit ==
    /\ mergeBase = ""
    /\ cache = EmptyCache
    /\ enabled = TRUE
    /\ togglingProgrammatically = FALSE
    /\ thenPending = FALSE
    /\ gutterIndicators = TRUE
    /\ decorations = [e \in Editors |-> NoDecorations]
    /\ inflight = EmptyBag
    /\ call = [op |-> "constructor", arg |-> "", ret |-> FALSE]
    /\ head = "h1"
    /\ origin = EmptyCache
    /\ TreeInit

Init ==
    /\ diffOutput \in DiffTexts
    /\ ParseInit
    /\ ProviderInit

Next ==
    \/ ParseBegin
    \/ HunkHeader
    \/ SkipBeforeHunk
    \/ RemovedRun
    \/ AddedRun
    \/ ContextLine
    \/ IgnoredLine
    \/ ParseReturn

\* parseUnifiedDiff applied to every text of DiffTexts.
Spec == Init /\ [][Next]_vars

\* Longest diff text of a caller that calls parseUnifiedDiff again and again.
MaxCallLines == 2

\* The texts such a caller passes: lines that are empty, a hunk header of
\* start 1, or start with "-", "+" or " ".
CallTexts ==
    {Join(ls) : ls \in UNION {[1..n -> {<<>>, <<HunkTok(1)>>, <<PrefixTok("-")>>,
                                         <<PrefixTok("+")>>, <<PrefixTok(" ")>>}] :
                               n \in 1..MaxCallLines}}

\* The caller keeps the text and the result of a call that has returned.
KeepResult ==
    /\ pc = "done"
    /\ ~kept.has
    /\ kept' = [has |-> TRUE, text |-> diffOutput, result |-> changes, between |-> FALSE]
    /\ UNCHANGED <<parseVars, providerVars, treeVars>>

\* The caller calls parseUnifiedDiff again, with any text.
CallAgain ==
    /\ pc = "done"
    /\ \E t \in CallTexts :
           /\ diffOutput' = t
           /\ kept' = IF kept.has /\ t # kept.text
                      THEN [kept EXCEPT !.between = TRUE]
                      ELSE kept
    /\ pc' = "call"
    /\ UNCHANGED <<lines, i, newLine, changes, providerVars, treeVars>>

CallerInit ==
    /\ diffOutput \in CallTexts
    /\ ParseInit
    /\ ProviderInit

CallerNext ==
    \/ ParseBegin
    \/ HunkHeader
    \/ SkipBeforeHunk
    \/ RemovedRun
    \/ AddedRun
    \/ ContextLine
    \/ IgnoredLine
    \/ ParseReturn
    \/ KeepResult
    \/ CallAgain

\* parseUnifiedDiff called any number of times, one call after the other.
CallerSpec == CallerInit /\ [][CallerNext]_vars

ProviderNext ==
    \/ \E b \in Bases \cup {""} : SetMergeBase(b)
    \/ \E e \in Editors : UpdateDecorations(e)
    \/ \E c \in SuspendedCalls, ok \in BOOLEAN : LineDiffResolved(c, ok)
    \/ RefreshAll
    \/ DecorateVisible
    \/ Toggle(TRUE)
    \/ ToggleWritten
    \/ \E v \in BOOLEAN : ConfigurationChanged(v)

ProviderSpecInit ==
    /\ diffOutput = <<>>
    /\ ParseInit
    /\ ProviderInit

\* The gutter provider under any order of its callers and callbacks.
ProviderSpec == ProviderSpecInit /\ [][ProviderNext]_vars

ExtensionNext ==
    \/ \E b \in Bases \cup {""} : SyncGutter(b)
    \/ \E e \in Editors : UpdateDecorations(e)
    \/ \E c \in SuspendedCalls, ok \in BOOLEAN : LineDiffResolved(c, ok)
    \/ Toggle(TRUE)
    \/ ToggleWritten
    \/ \E v \in BOOLEAN : ConfigurationChanged(v)
    \/ \E h \in Heads : GitStateChanged(h)

\* The gutter provider as the activated extension drives it: syncGutter after
\* each refresh, the editor listeners, the toggle command, the settings and
\* the repository.
ExtensionSpec == ProviderSpecInit /\ [][ExtensionNext]_vars

\* The classifications getLineDiff can return: those of every diff text.
Classifications == {parseUnifiedDiff(t) : t \in DiffTexts}

\* The provider holding a base and, for each file, a cache entry that is any
\* classification.
AdapterInit ==
    /\ diffOutput = <<>>
    /\ ParseInit
    /\ mergeBase = "b1"
    /\ \E lineChanges \in Classifications : cache = [p \in Paths |-> lineChanges]
    /\ origin = [p \in Paths |-> [mergeBase |-> "b1", head |-> "h1"]]
    /\ enabled = TRUE
    /\ togglingProgrammatically = FALSE
    /\ thenPending = FALSE
    /\ gutterIndicators = TRUE
    /\ decorations = [e \in Editors |-> NoDecorations]
    /\ inflight = EmptyBag
    /\ call = [op |-> "getLineDiff", arg |-> "b.ts", ret |-> TRUE]
    /\ head = "h1"
    /\ TreeInit

AdapterNext == \E e \in Editors : UpdateDecorations(e)

\* updateDecorations applied to every classification, for the documents of the
\* visible editors.
AdapterSpec == AdapterInit /\ [][AdapterNext]_vars

TreeNext ==
    \/ \E branch \in Branches : SetBaseBranch(branch)
    \/ Refresh
    \/ \E ok \in BOOLEAN : MergeBaseResolved(ok)
    \/ \E ok \in BOOLEAN : ChangedFilesResolved(ok)

\* The tree provider under any order of the commands that refresh it and of
\* the returns of git.
TreeSpec == ProviderSpecInit /\ [][TreeNext]_vars

\* The tree provider when every git command that refresh() awaits returns:
\* execAsync resolves or rejects when the git process exits, and the two
\* service methods return in both cases, so a suspended refresh() is resumed.
TreeFairSpec ==
    /\ ProviderSpecInit
    /\ [][TreeNext]_vars
    /\ WF_vars(\E ok \in BOOLEAN : MergeBaseResolved(ok))
    /\ WF_vars(\E ok \in BOOLEAN : ChangedFilesResolved(ok))

ToggleNext ==
    \/ \E b \in Bases : SetMergeBase(b)
    \/ \E c \in SuspendedCalls, ok \in BOOLEAN : LineDiffResolved(c, ok)
    \/ \E ok \in BOOLEAN : Toggle(ok)
    \/ ToggleWritten
    \/ \E v \in BOOLEAN : ConfigurationChanged(v)

\* The toggle command and the setting: toggle() with a settings write that is
\* fulfilled or rejected, and changes of the setting made in the settings.
\* The callback of a fulfilled write is run (the promise job is scheduled when
\* update() is fulfilled).
ToggleSpec ==
    /\ ProviderSpecInit
    /\ [][ToggleNext]_vars
    /\ WF_vars(ToggleWritten)

TypeOK ==
    /\ diffOutput \in DiffTexts
    /\ i \in 0..MaxLines
    /\ newLine \in 0..(MaxStart + MaxLines)
    /\ pc \in {"call", "loop", "done"}
    /\ \A j \in 1..Len(changes) : changes[j].type \in LineChangeTypes

(***************************************************************************)
(* Vocabulary of the properties: read from the input text and the loop     *)
(* index alone, not from the operators above.                              *)
(***************************************************************************)
\* The number of consecutive lines of ls, from 0-based index j on, that start
\* with c.
RunLength(ls, j, c) ==
    CHOOSE r \in 0..(Len(ls) - j) :
        /\ \A k \in 1..r : startsWith(ls[j + k], c)
        /\ (j + r = Len(ls) \/ ~startsWith(ls[j + r + 1], c))

\* The loop is about to read lines[i].
AtLine == pc = "loop" /\ i < Len(lines)

\* The loop is about to read the first line of a run of lines starting with c.
AtRunStart(c) ==
    /\ AtLine
    /\ startsWith(lines[i + 1], c)
    /\ (i = 0 \/ ~startsWith(lines[i], c))

\* The removed run at lines[i] and the added run directly after it.
R == RunLength(lines, i, "-")

A == RunLength(lines, i + R, "+")

\* changes' is changes followed by exactly the records recs.
Emits(recs) == changes' = changes \o recs

\* changes' is changes followed by rec and possibly more.
EmitsFirst(rec) ==
    /\ Len(changes') > Len(changes)
    /\ SubSeq(changes', 1, Len(changes)) = changes
    /\ changes'[Len(changes) + 1] = rec

TextOf(ls) == Join(ls)

Hdr(n) == <<HunkTok(n)>>

Ln(c) == <<PrefixTok(c)>>

\* Some line of the text matches the hunk-header pattern.
HasHunkHeader(text) == \E j \in 1..Len(text) : text[j].k = "@@"

\* C1: a removed run of R >= 1 lines directly followed by an added run of
\* A >= 1 lines, met at cursor n >= 1, emits Modified n..n+min(R,A)-1 first and
\* moves the cursor to n + A; when R = A it is the only record emitted.
C1_PairedRunIsModified ==
    [][(AtRunStart("-") /\ newLine >= 1 /\ A >= 1) =>
          LET m == LineChange("modified", newLine, newLine + Min(R, A) - 1)
          IN  /\ EmitsFirst(m)
              /\ newLine' = newLine + A
              /\ (R = A => Emits(<<m>>))]_vars

\* C1 witness: "@@ +2 @@", "-", "+" has been classified as [Modified 2..2].
C1_Witness ==
    /\ pc = "done"
    /\ diffOutput = TextOf(<<Hdr(2), Ln("-"), Ln("+")>>)
    /\ changes = <<LineChange("modified", 2, 2)>>
    /\ newLine = 3

\* C2: a removed run of R >= 1 lines directly followed by an added run of
\* A > R lines at cursor n (n >= 1, the cursor of C1) emits exactly Modified
\* n..n+R-1 and then Added n+R..n+A-1, and no Deleted record.
C2_AddedSurplus ==
    [][(AtRunStart("-") /\ newLine >= 1 /\ A > R) =>
          Emits(<<LineChange("modified", newLine, newLine + R - 1),
                  LineChange("added", newLine + R, newLine + A - 1)>>)]_vars

\* C2 witness: "@@ +1 @@", "-", "+", "+" has been classified as
\* [Modified 1..1, Added 2..2].
C2_Witness ==
    /\ pc = "done"
    /\ diffOutput = TextOf(<<Hdr(1), Ln("-"), Ln("+"), Ln("+")>>)
    /\ changes = <<LineChange("modified", 1, 1), LineChange("added", 2, 2)>>

C4_StandaloneAdded ==
    [][(/\ AtRunStart("+")
        /\ (i = 0 \/ ~startsWith(lines[i], "-"))
        /\ newLine >= 1) =>
          LET a == RunLength(lines, i, "+")
          IN  /\ Emits(<<LineChange("added", newLine, newLine + a - 1)>>)
              /\ newLine' = newLine + a]_vars

\* C4 witness: "@@ +2 @@" and three "+" lines has been classified as
\* [Added 2..4].
C4_Witness ==
    /\ pc = "done"
    /\ diffOutput = TextOf(<<Hdr(2), Ln("+"), Ln("+"), Ln("+")>>)
    /\ changes = <<LineChange("added", 2, 4)>>
    /\ newLine = 5

\* C5: a removed run of R >= 1 lines that no added line directly follows, met
\* at cursor n (n >= 1), emits exactly one Deleted marker n..n, whatever R is,
\* and leaves the cursor at n.
C5_PureDeletion ==
    [][(AtRunStart("-") /\ newLine >= 1 /\ A = 0) =>
          /\ Emits(<<LineChange("deleted", newLine, newLine)>>)
          /\ newLine' = newLine]_vars

\* C5 witness: "@@ +2 @@" and three "-" lines has been classified as
\* [Deleted 2..2].
C5_Witness ==
    /\ pc = "done"
    /\ diffOutput = TextOf(<<Hdr(2), Ln("-"), Ln("-"), Ln("-")>>)
    /\ changes = <<LineChange("deleted", 2, 2)>>
    /\ newLine = 2

\* The text is one hunk header followed by context lines only.
HeaderAndContextOnly ==
    /\ Len(lines) >= 2
    /\ hunkMatch(lines[1])
    /\ \A j \in 2..Len(lines) : startsWith(lines[j], " ")

\* C6: a context line read at cursor n >= 1 moves the cursor to n + 1 and emits
\* nothing; a text of one hunk header (of any start) and context lines is
\* classified as the empty sequence.
C6_ContextLine ==
    /\ [][(AtLine /\ startsWith(lines[i + 1], " ") /\ newLine >= 1) =>
            (newLine' = newLine + 1 /\ changes' = changes)]_vars
    /\ []((pc = "done" /\ HeaderAndContextOnly) => changes = <<>>)

\* C6 witness: "@@ +1 @@" and three context lines has been read to the end,
\* the cursor is at 4, nothing was emitted.
C6_Witness ==
    /\ pc = "done"
    /\ diffOutput = TextOf(<<Hdr(1), Ln(" "), Ln(" "), Ln(" ")>>)
    /\ newLine = 4
    /\ changes = <<>>

\* C7: for the empty text, and for any text without a hunk-header line, no
\* record is ever pushed, the scan is never stuck before the return, and the
\* result is the empty sequence.
C7_NoHeaderNoRecords ==
    ~HasHunkHeader(diffOutput) =>
        /\ changes = <<>>
        /\ (pc = "done" \/ ENABLED Next)

\* C7 witness: the text of the lines "-", "+", " " has been read to the end.
C7_Witness ==
    /\ pc = "done"
    /\ diffOutput = TextOf(<<Ln("-"), Ln("+"), Ln(" ")>>)
    /\ changes = <<>>

\* C7 witness for the empty text.
C7_WitnessEmptyText == pc = "done" /\ diffOutput = <<>> /\ Len(lines) = 1

\* The startLine values of recs, in order, never decrease.
NonDecreasingStarts(recs) ==
    \A j \in 1..(Len(recs) - 1) : recs[j].startLine <= recs[j + 1].startLine

RECURSIVE HeadersAscend(_, _, _)
\* Every hunk header among the first upto lines of ls carries a new-file start
\* that is not below the cursor value the scan had reached before it.
HeadersAscend(ls, st, upto) ==
    IF st.i >= upto \/ st.i >= Len(ls) THEN TRUE
    ELSE /\ (hunkMatch(ls[st.i + 1]) => hunkStart(ls[st.i + 1]) >= st.newLine)
         /\ HeadersAscend(ls, Step(ls, st), upto)

\* C8 as stated: for any diff text, with any hunk headers, the startLine
\* values of the records are non-decreasing in output order.
C8_StartsNonDecreasingAnyDiff == NonDecreasingStarts(changes)

\* C8 as amended: when no hunk header carries a new-file start below the cursor
\* value reached before it, the startLine values of the records are
\* non-decreasing in output order.
C8_StartsNonDecreasingAscendingHunks ==
    (pc # "call" /\ HeadersAscend(lines, EntryState, i)) => NonDecreasingStarts(changes)

\* C8 witness: two hunks in ascending order, "@@ +1 @@", "-", "@@ +2 @@", "+",
\* have been classified as [Deleted 1..1, Added 2..2].
C8_Witness ==
    /\ pc = "done"
    /\ diffOutput = TextOf(<<Hdr(1), Ln("-"), Hdr(2), Ln("+")>>)
    /\ HeadersAscend(lines, EntryState, i)
    /\ changes = <<LineChange("deleted", 1, 1), LineChange("added", 2, 2)>>

\* C9: a call of parseUnifiedDiff returns what an earlier call with the same
\* text returned, whatever was classified in between.
C9_SameTextSameResult ==
    (pc = "done" /\ kept.has /\ diffOutput = kept.text) => changes = kept.result

\* C9 witness: a text classified as a non-empty sequence has been classified
\* again, after a call with another text, with an equal result.
C9_Witness ==
    /\ pc = "done"
    /\ kept.has
    /\ kept.between
    /\ diffOutput = kept.text
    /\ kept.result # <<>>
    /\ changes = kept.result

\* C10: setMergeBase(b), called while the held base differs from b, stores b,
\* leaves the cache without any entry and returns true.
C10_SetMergeBaseChanged ==
    [][(call'.op = "setMergeBase" /\ mergeBase # call'.arg) =>
          /\ mergeBase' = call'.arg
          /\ cache' = EmptyCache
          /\ call'.ret = TRUE]_vars

\* C10 witness: setMergeBase("b2") has just returned true and emptied a cache
\* that held the entry from which editor e1 was decorated.
C10_Witness ==
    /\ call = [op |-> "setMergeBase", arg |-> "b2", ret |-> TRUE]
    /\ mergeBase = "b2"
    /\ cache = EmptyCache
    /\ enabled
    /\ inflight = <<>>
    /\ decorations["e1"].added # <<>>

\* C11: setMergeBase(b), called while the held base equals b, returns false and
\* leaves the held base and every cache entry as they were; and a setMergeBase
\* call that directly follows a setMergeBase call of the same value that
\* returned true returns false.
C11_SetMergeBaseUnchanged ==
    [][/\ (call'.op = "setMergeBase" /\ mergeBase = call'.arg) =>
              /\ call'.ret = FALSE
              /\ mergeBase' = mergeBase
              /\ cache' = cache
       /\ (/\ call.op = "setMergeBase"
           /\ call.ret = TRUE
           /\ call'.op = "setMergeBase"
           /\ call'.arg = call.arg) => call'.ret = FALSE]_vars

\* C11 witness: setMergeBase("b1") has just returned false, the held base being
\* "b1" and the cache holding a non-empty classification.
C11_Witness ==
    /\ call = [op |-> "setMergeBase", arg |-> "b1", ret |-> FALSE]
    /\ mergeBase = "b1"
    /\ "a.ts" \in DOMAIN cache
    /\ cache["a.ts"] # <<>>

\* C12: at all times, under every interleaving of updateDecorations, its
\* suspended retrievals and setMergeBase, every cache entry holds a
\* classification that was retrieved against the held base: a retrieval started
\* under an older base does not insert its result after the base has changed.
C12_NoEntryOfAnotherBase ==
    \A p \in DOMAIN cache : origin[p].mergeBase = mergeBase

\* The editors updateDecorations looks up in the cache: those of a file of the
\* repository.
InRepository(e) == Doc(e).scheme = "file" /\ Doc(e).relativePath # ""

\* The suspended call that updateDecorations(e) makes of the provider state.
RetrievalOf(e) ==
    [editor |-> e, mergeBase |-> mergeBase, head |-> head,
     relativePath |-> Doc(e).relativePath]

\* How many suspended calls equal to c the bag b holds.
Pending(b, c) == IF c \in DOMAIN b THEN b[c] ELSE 0

\* C13: updateDecorations(e), the indicators being enabled, the held base not
\* empty and e showing a file of the repository: if the cache has an entry for
\* the path (the empty sequence included) the decorations are those of the
\* entry and no retrieval starts; if it has none, exactly one retrieval for the
\* held base and the path starts.  When a retrieval returns, its result is
\* stored under its path and the same result decorates the editor.
C13_CacheGet ==
    [][/\ (/\ call'.op = "updateDecorations"
           /\ enabled
           /\ mergeBase # ""
           /\ InRepository(call'.arg)) =>
              /\ cache' = cache
              /\ IF Doc(call'.arg).relativePath \in DOMAIN cache
                 THEN /\ inflight' = inflight
                      /\ decorations'[call'.arg] =
                             DecorationsFor(cache[Doc(call'.arg).relativePath],
                                            Doc(call'.arg).lineCount)
                 ELSE /\ \A c \in SuspendedCalls :
                             Pending(inflight', c) =
                                 Pending(inflight, c) +
                                     (IF c = RetrievalOf(call'.arg) THEN 1 ELSE 0)
                      /\ decorations' = decorations
       /\ call'.op = "getLineDiff" =>
              \E c \in DOMAIN inflight :
                  /\ c.relativePath = call'.arg
                  /\ \A d \in SuspendedCalls :
                         Pending(inflight', d) =
                             Pending(inflight, d) - (IF d = c THEN 1 ELSE 0)
                  /\ call'.arg \in DOMAIN cache'
                  /\ cache'[call'.arg] =
                         (IF call'.ret
                          THEN parseUnifiedDiff(GitDiff(c.mergeBase, c.head, call'.arg))
                          ELSE <<>>)
                  /\ decorations'[c.editor] =
                         DecorationsFor(cache'[call'.arg], Doc(c.editor).lineCount)]_vars

\* C13 witness: updateDecorations("e1") has just used an entry that is the
\* empty sequence, stored by a retrieval that succeeded: no retrieval is
\* suspended.
C13_Witness ==
    /\ call = [op |-> "updateDecorations", arg |-> "e1", ret |-> FALSE]
    /\ enabled
    /\ mergeBase = "b2"
    /\ "a.ts" \in DOMAIN cache
    /\ cache["a.ts"] = <<>>
    /\ origin["a.ts"] = [mergeBase |-> "b2", head |-> "h1"]
    /\ inflight = EmptyBag
    /\ decorations["e1"] = NoDecorations

\* C14: refreshAll() leaves the cache without any entry and the held base as it
\* was; the gets it makes for the visible editors are misses: with the
\* indicators enabled and a base held, one retrieval starts for each editor of
\* a file of the repository.
C14_RefreshAllClears ==
    [][call'.op = "refreshAll" =>
          /\ cache' = EmptyCache
          /\ mergeBase' = mergeBase
          /\ (enabled /\ mergeBase # "") =>
                 \A e \in Editors :
                     InRepository(e) =>
                         Pending(inflight', RetrievalOf(e)) =
                             Pending(inflight, RetrievalOf(e)) + 1]_vars

\* C14 witness: refreshAll() has just run while editor e1 was decorated from a
\* cache entry: the cache is empty, the base is held, and a retrieval for a.ts
\* is suspended.
C14_Witness ==
    /\ call.op = "refreshAll"
    /\ enabled
    /\ mergeBase = "b1"
    /\ cache = EmptyCache
    /\ decorations["e1"].added # <<>>
    /\ Pending(inflight, RetrievalOf("e1")) = 1

\* C15: when the retrieval for a path fails, the suspended updateDecorations
\* call goes on as after a success: the entry of the path becomes the empty
\* sequence, the editor of the call gets no decorations, and the entries of the
\* other paths are as they were.
C15_FailedRetrievalIsEmpty ==
    [][(call'.op = "getLineDiff" /\ ~call'.ret) =>
          /\ call'.arg \in DOMAIN cache'
          /\ cache'[call'.arg] = <<>>
          /\ \A q \in Paths \ {call'.arg} :
                 /\ q \in DOMAIN cache' <=> q \in DOMAIN cache
                 /\ q \in DOMAIN cache => cache'[q] = cache[q]
          /\ \E c \in DOMAIN inflight :
                 /\ c.relativePath = call'.arg
                 /\ inflight' = inflight (-) SetToBag({c})
                 /\ decorations' = [decorations EXCEPT ![c.editor] = NoDecorations]]_vars

\* C15 witness: the retrieval for a.ts, whose diff is not empty, has just
\* failed: its entry is the empty sequence and the entry of b.ts is not.
C15_Witness ==
    /\ call = [op |-> "getLineDiff", arg |-> "a.ts", ret |-> FALSE]
    /\ mergeBase = "b1"
    /\ origin["a.ts"].mergeBase = "b1"
    /\ cache["a.ts"] = <<>>
    /\ "b.ts" \in DOMAIN cache
    /\ cache["b.ts"] # <<>>

\* C16: updateDecorations, called while the held base is empty (from a
\* listener, from refreshAll or from decorateVisible), starts no retrieval,
\* adds no cache entry and changes none, and leaves the editor without
\* decorations.
C16_EmptyBaseNoRetrieval ==
    [][(call'.op \in {"updateDecorations", "refreshAll", "decorateVisible"} /\
        mergeBase = "") =>
          /\ inflight' = inflight
          /\ DOMAIN cache' \subseteq DOMAIN cache
          /\ \A q \in DOMAIN cache' : cache'[q] = cache[q]
          /\ \A e \in Editors :
                 (call'.op = "updateDecorations" => e = call'.arg) =>
                     decorations'[e] = NoDecorations]_vars

\* C16 witness: updateDecorations("e1") has just run with no base held and the
\* indicators enabled, and has cleared e1 while e2 keeps the decorations it got
\* under an earlier base.
C16_Witness ==
    /\ call = [op |-> "updateDecorations", arg |-> "e1", ret |-> FALSE]
    /\ mergeBase = ""
    /\ enabled
    /\ inflight = EmptyBag
    /\ decorations["e1"] = NoDecorations
    /\ decorations["e2"] # NoDecorations

\* C17: when syncGutter has run at the end of a refresh (the refresh command,
\* the auto-refresh after a change of the repository state), with the
\* indicators enabled and a base held, no visible file is decorated from a
\* cache entry retrieved against the held base at a commit whose diff differs
\* from the diff between the base and the current HEAD.
C17_RefreshUsesCurrentDiff ==
    (call.op = "syncGutter" /\ enabled /\ mergeBase # "") =>
        \A e \in Editors :
            (/\ InRepository(e)
             /\ Doc(e).relativePath \in DOMAIN cache
             /\ origin[Doc(e).relativePath].mergeBase = mergeBase) =>
                GitDiff(mergeBase, origin[Doc(e).relativePath].head, Doc(e).relativePath)
                    = GitDiff(mergeBase, head, Doc(e).relativePath)

\* C18: while the indicators are disabled no editor has decorations, whatever
\* updateDecorations calls were suspended when they were disabled.
C18_DisabledNoDecorations ==
    ~enabled => \A e \in Editors : decorations[e] = NoDecorations

\* The indices of the records of kind type among lineChanges that start within
\* a document of lineCount lines.
ShownRecords(lineChanges, type, lineCount) ==
    {j \in 1..Len(lineChanges) :
        lineChanges[j].type = type /\ lineChanges[j].startLine - 1 < lineCount}

\* The ranges of one kind are those of the shown records of that kind, in the
\* order of the records: [max(0, startLine - 1), min(max(0, endLine - 1),
\* lineCount - 1)], within the document.
RangesMatch(ranges, lineChanges, type, lineCount) ==
    LET shown == ShownRecords(lineChanges, type, lineCount)
    IN  /\ Len(ranges) = Cardinality(shown)
        /\ \A j \in shown :
               LET range == ranges[Cardinality({k \in shown : k <= j})]
                   s == IF lineChanges[j].startLine - 1 > 0
                        THEN lineChanges[j].startLine - 1 ELSE 0
                   last == IF lineChanges[j].endLine - 1 > 0
                           THEN lineChanges[j].endLine - 1 ELSE 0
                   e == IF last < lineCount - 1 THEN last ELSE lineCount - 1
               IN  /\ range = <<s, e>>
                   /\ 0 <= s
                   /\ s <= e
                   /\ e <= lineCount - 1

\* C20: after updateDecorations(e) for an editor of a repository file whose
\* classification is cached, each of the three decoration lists holds, for
\* every record of its own kind that starts within the document (and for no
\* other record), the range [s, e] with s = max(0, startLine - 1) and
\* e = min(max(0, endLine - 1), L - 1), where 0 <= s <= e <= L - 1; a record
\* with startLine - 1 >= L gives no range.
C20_RangesClamped ==
    (call.op = "updateDecorations" /\ InRepository(call.arg)) =>
        LET lineChanges == cache[Doc(call.arg).relativePath]
            lineCount == Doc(call.arg).lineCount
        IN  /\ RangesMatch(decorations[call.arg].added, lineChanges, "added", lineCount)
            /\ RangesMatch(decorations[call.arg].modified, lineChanges, "modified",
                           lineCount)
            /\ RangesMatch(decorations[call.arg].deleted, lineChanges, "deleted",
                           lineCount)

\* C20 witness: the cached classification is [Added 2..4]; e1, whose document
\* has 3 lines, got the added range clamped to [1, 2] and nothing in the other
\* lists; updateDecorations("e2") has just run for a document of 1 line, which
\* got no range: the record starts beyond it.
C20_Witness ==
    /\ call = [op |-> "updateDecorations", arg |-> "e2", ret |-> FALSE]
    /\ cache["b.ts"] = <<LineChange("added", 2, 4)>>
    /\ decorations["e1"] = [added |-> <<<<1, 2>>>>, modified |-> <<>>, deleted |-> <<>>]
    /\ decorations["e2"] = NoDecorations

\* C19: when a setBaseBranch(b) call has returned, the tree provider holds the
\* merge base of b and the files changed since it (none, if git could not list
\* them), or, if no merge base with b was found, no files and the message that
\* names b; also when the call was made while a refresh was under way.
C19_SetBaseBranchTakesEffect ==
    call.op = "setBaseBranch.return" =>
        \/ /\ treeMergeBase = MergeBaseOf(call.arg)
           /\ changedFiles \in {ChangedFilesOf(MergeBaseOf(call.arg)), <<>>}
        \/ /\ changedFiles = <<>>
           /\ statusMessage = CannotFindMergeBase(call.arg)

\* Some hunk header stands among the first upto lines of ls.
HeaderBefore(ls, upto) == \E j \in 1..upto : hunkMatch(ls[j])

\* C21 as stated: a hunk header sets newLine to the start it carries, whatever
\* the value, and only the lines before the first hunk header are skipped: a
\* removed or added run that stands after a hunk header emits a record and a
\* context line after a hunk header advances newLine by one, also when the
\* header carries the new-file start 0 (the text "@@ +0 @@", "-", "-", "-"
\* yields one Deleted marker).
C21_OnlyLinesBeforeFirstHeaderSkipped ==
    [][AtLine =>
         /\ (hunkMatch(lines[i + 1]) => newLine' = hunkStart(lines[i + 1]))
         /\ (HeaderBefore(lines, i) /\ (startsWith(lines[i + 1], "-") \/ startsWith(lines[i + 1], "+"))
               => Len(changes') > Len(changes))
         /\ (HeaderBefore(lines, i) /\ startsWith(lines[i + 1], " ")
               => newLine' = newLine + 1)]_vars

\* The records of recs at indices j < k are of the same kind and cover a common
\* new-file line.
SameKindOverlap(recs, j, k) ==
    /\ recs[j].type = recs[k].type
    /\ recs[j].startLine <= recs[k].endLine
    /\ recs[k].startLine <= recs[j].endLine

NoSameKindOverlap(recs) ==
    \A j \in 1..Len(recs) : \A k \in (j + 1)..Len(recs) : ~SameKindOverlap(recs, j, k)

RECURSIVE HeadersAdvance(_, _, _)
\* Every hunk header among the first upto lines of ls carries a new-file start
\* above the cursor value the scan had reached before it.
HeadersAdvance(ls, st, upto) ==
    IF st.i >= upto \/ st.i >= Len(ls) THEN TRUE
    ELSE /\ (hunkMatch(ls[st.i + 1]) => hunkStart(ls[st.i + 1]) > st.newLine)
         /\ HeadersAdvance(ls, Step(ls, st), upto)

\* C22: no two records of the same kind in the output of one parseUnifiedDiff
\* call cover a common new-file line. The statement is made for the texts
\* whose hunk headers each start above the cursor reached before them, so
\* that a text with repeated or descending hunks is not what refutes it.
C22_NoSameKindOverlap ==
    (pc # "call" /\ HeadersAdvance(lines, EntryState, i)) => NoSameKindOverlap(changes)

\* C23: every record emitted is well formed: an Added or Modified record has
\* startLine <= endLine and a Deleted record has startLine = endLine.
C23_RecordsWellFormed ==
    \A j \in 1..Len(changes) :
        IF changes[j].type = "deleted"
        THEN changes[j].startLine = changes[j].endLine
        ELSE changes[j].startLine <= changes[j].endLine

\* C23 witness: "@@ +1 @@", "-", "-", "+" has been classified as a Modified
\* record of one line and a Deleted marker.
C23_Witness ==
    /\ pc = "done"
    /\ diffOutput = TextOf(<<Hdr(1), Ln("-"), Ln("-"), Ln("+")>>)
    /\ changes = <<LineChange("modified", 1, 1), LineChange("deleted", 2, 2)>>

\* C24: no step other than a hunk header decreases newLine. Within a hunk
\* (cursor >= 1) a context line adds 1, an added run of A lines adds A, a
\* removed run adds 0 (the added run of A lines directly after it, classified
\* in the same step, adds its A) and an ignored line adds 0.
C24_CursorNeverDecreased ==
    [][(AtLine /\ ~hunkMatch(lines[i + 1])) =>
         /\ newLine' >= newLine
         /\ newLine >= 1 =>
              newLine' = newLine +
                  (IF startsWith(lines[i + 1], " ") THEN 1
                   ELSE IF startsWith(lines[i + 1], "+") THEN RunLength(lines, i, "+")
                   ELSE IF startsWith(lines[i + 1], "-") THEN A
                   ELSE 0)]_vars

\* C24 witness: in "@@ +1 @@", " ", "+", "-" the context line and the added
\* line have moved the cursor from 1 to 3 and the removed line has left it at 3.
C24_Witness ==
    /\ pc = "done"
    /\ diffOutput = TextOf(<<Hdr(1), Ln(" "), Ln("+"), Ln("-")>>)
    /\ newLine = 3
    /\ changes = <<LineChange("added", 2, 2), LineChange("deleted", 3, 3)>>

\* The line is neither a hunk header nor prefixed by '-', '+' or ' '.
Unrecognized(line) ==
    /\ ~hunkMatch(line)
    /\ ~startsWith(line, "-")
    /\ ~startsWith(line, "+")
    /\ ~startsWith(line, " ")

\* ls without its j-th line.
Without(ls, j) == SubSeq(ls, 1, j - 1) \o SubSeq(ls, j + 1, Len(ls))

\* C25: a line after the first hunk header that is neither a header nor
\* prefixed by '-', '+' or ' ' is inert wherever it stands: the records
\* returned for the text are those returned for the text without the line,
\* also when the line stands between a removed run and the added run that
\* follows it.
C25_UnrecognizedLineInert ==
    pc = "done" =>
        \A j \in 1..Len(lines) :
            (HeaderBefore(lines, j - 1) /\ Unrecognized(lines[j]))
                => changes = parseUnifiedDiff(Join(Without(lines, j)))

\* C26: for hunk sequences H1 and H2 that each start with a hunk header, the
\* records returned for H1 followed by H2 are the records returned for H1
\* followed by the records returned for H2.
C26_HunksIndependent ==
    pc = "done" =>
        \A j \in 2..Len(lines) :
            (hunkMatch(lines[1]) /\ hunkMatch(lines[j]))
                => changes = parseUnifiedDiff(Join(SubSeq(lines, 1, j - 1)))
                             \o parseUnifiedDiff(Join(SubSeq(lines, j, Len(lines))))

\* C26 witness: "@@ +1 @@", "-" followed by "@@ +1 @@", "+" has been
\* classified as the Deleted marker of the first hunk and the Added record of
\* the second.
C26_Witness ==
    /\ pc = "done"
    /\ diffOutput = TextOf(<<Hdr(1), Ln("-"), Hdr(1), Ln("+")>>)
    /\ changes = <<LineChange("deleted", 1, 1), LineChange("added", 1, 1)>>

\* The text is one hunk header with a new-file start of at least 1 followed by
\* lines that each start with '-', '+' or ' '.
OneHunk(ls) ==
    /\ hunkMatch(ls[1])
    /\ hunkStart(ls[1]) >= 1
    /\ \A j \in 2..Len(ls) :
           startsWith(ls[j], "-") \/ startsWith(ls[j], "+") \/ startsWith(ls[j], " ")

\* The new-file line number of the line ls[j] of a one-hunk text: the header's
\* start plus the number of '+' and context lines between the header and it.
NewFileLine(ls, j) ==
    hunkStart(ls[1])
        + Cardinality({k \in 2..(j - 1) : startsWith(ls[k], "+") \/ startsWith(ls[k], " ")})

PlusLines(ls) == {NewFileLine(ls, j) : j \in {k \in 2..Len(ls) : startsWith(ls[k], "+")}}

\* The Added and Modified records of recs that cover line n.
Covering(recs, n) ==
    {j \in 1..Len(recs) :
        /\ recs[j].type \in {"added", "modified"}
        /\ recs[j].startLine <= n
        /\ n <= recs[j].endLine}

\* C29: for a diff with one hunk header (start >= 1) whose body holds only
\* '-', '+' and context lines, the lines covered by the Added and Modified
\* records are exactly the new-file line numbers of the '+' lines, and each of
\* them is covered by exactly one record.
C29_AddedLinesCovered ==
    (pc = "done" /\ OneHunk(lines)) =>
        \A n \in 0..(hunkStart(lines[1]) + Len(lines)) :
            Cardinality(Covering(changes, n)) = IF n \in PlusLines(lines) THEN 1 ELSE 0

\* C29 witness: "@@ +2 @@", "-", "+", "+" has been classified as Modified 2..2
\* and Added 3..3, which cover the lines 2 and 3 of the two '+' lines.
C29_Witness ==
    /\ pc = "done"
    /\ diffOutput = TextOf(<<Hdr(2), Ln("-"), Ln("+"), Ln("+")>>)
    /\ OneHunk(lines)
    /\ PlusLines(lines) = {2, 3}
    /\ changes = <<LineChange("modified", 2, 2), LineChange("added", 3, 3)>>

\* The path that a step of a cache get is about: the path of the editor passed
\* to updateDecorations, or the path whose retrieval returns.
PathOfGet(c) == IF c.op = "getLineDiff" THEN c.arg ELSE Doc(c.arg).relativePath

\* What a retrieval for a path can return: the classification of a diff of the
\* path against some base and commit, or the empty sequence.
ClassificationsOf ==
    [p \in Paths |->
        {getLineDiff(b, h, p, ok) : b \in Bases, h \in Heads, ok \in BOOLEAN}]

\* C27: a cache get for path p (updateDecorations up to its return or its
\* await, and its continuation when the retrieval returns) changes at most the
\* entry of p: every other path keeps its entry, with the same presence and
\* the same value, and the held base is unchanged. An entry is written in one
\* step and is a complete classification of a diff of its path, or the empty
\* sequence of a failed retrieval.
C27_GetChangesOnlyItsEntry ==
    [][call'.op \in {"updateDecorations", "getLineDiff"} =>
         /\ mergeBase' = mergeBase
         /\ \A q \in Paths \ {PathOfGet(call')} :
                /\ q \in DOMAIN cache' <=> q \in DOMAIN cache
                /\ q \in DOMAIN cache => cache'[q] = cache[q]
         /\ \A p \in DOMAIN cache' :
                (p \notin DOMAIN cache \/ cache'[p] # cache[p]) =>
                    /\ p = PathOfGet(call')
                    /\ call'.op = "getLineDiff"
                    /\ cache'[p] \in ClassificationsOf[p]]_vars

\* C27 witness: the retrieval for a.ts has returned and stored its
\* classification while the entry of b.ts, stored before, is still there.
C27_Witness ==
    /\ call = [op |-> "getLineDiff", arg |-> "a.ts", ret |-> TRUE]
    /\ mergeBase = "b1"
    /\ DOMAIN cache = {"a.ts", "b.ts"}
    /\ cache["a.ts"] = <<LineChange("added", 1, 1)>>
    /\ cache["b.ts"] = <<LineChange("added", 3, 4)>>

\* C28 as stated: also when updateDecorations calls overlap, at most one
\* retrieval per (base, path) is under way: a second caller does not start a
\* second getLineDiff for a key whose retrieval has not returned yet.
C28_OneRetrievalPerKey ==
    \A c \in DOMAIN inflight :
        /\ inflight[c] <= 1
        /\ \A d \in DOMAIN inflight :
               (d.mergeBase = c.mergeBase /\ d.relativePath = c.relativePath) => d = c

\* C28 as amended: a retrieval is started only by a get that misses, one per
\* miss: whenever a step starts a retrieval, it starts one for that editor,
\* for the held base, and the path has no entry in the cache. Once an entry is
\* stored no retrieval starts for its path until the cache is cleared; gets
\* that overlap before the first retrieval returns each start their own.
C28_RetrievalOnlyOnMiss ==
    [][\A c \in DOMAIN inflight' :
           Pending(inflight', c) > Pending(inflight, c) =>
               /\ Pending(inflight', c) = Pending(inflight, c) + 1
               /\ c.mergeBase = mergeBase'
               /\ c.relativePath \notin DOMAIN cache']_vars

\* C28 witness: two updateDecorations calls for e1 have overlapped and two
\* retrievals for the key (b1, a.ts) are under way, no entry being stored yet.
C28_Witness ==
    /\ call = [op |-> "updateDecorations", arg |-> "e1", ret |-> FALSE]
    /\ mergeBase = "b1"
    /\ "a.ts" \notin DOMAIN cache
    /\ Pending(inflight, [editor |-> "e1", mergeBase |-> "b1", head |-> "h1",
                          relativePath |-> "a.ts"]) = 2

\* The step is a refresh() call that returns at the isLoading guard.
ReturnsAtGuard ==
    /\ isLoading
    /\ isLoading'
    /\ call'.op \in {"refresh.return", "setBaseBranch.return"}

\* The step is a refresh() call that passes the isLoading guard.
PassesGuard == call'.op \in {"refresh.call", "setBaseBranch.call"}

OutsideChange == call'.op = "onDidChangeConfiguration"

\* C31: after every toggle() togglingProgrammatically returns to false, and a
\* change of branchDiff.gutterIndicators made outside toggle() is picked up by
\* the listener and applied to enabled.
C31_ToggleSuppressesOnlyItsOwnWrite ==
    /\ (togglingProgrammatically ~> ~togglingProgrammatically)
    /\ [][OutsideChange => enabled' = gutterIndicators']_vars

====
